---- MODULE Spec2Model ----
(***************************************************************************)
(* scripts/create-768-dim-index.py: a script that constructs a Pinecone    *)
(* client, lists the indexes of the service, creates the index             *)
(* 'lens-tool-768' when its name is not listed, and lists the indexes      *)
(* again to print them.  One generic handler wraps everything after the    *)
(* construction of the client.                                             *)
(*                                                                         *)
(* A run of the script is a process p.  The service is shared by the       *)
(* runs.  A remote call either returns or raises; print is taken not to    *)
(* raise.                                                                  *)
(***************************************************************************)
EXTENDS Integers, Sequences, FiniteSets

\* ---------------------------------------------------------------- bounds

\* How many index names besides 'lens-tool-768' the service may hold.
NumOtherNames == 2

\* ------------------------------------------------------------- constants

index_name == "lens-tool-768"

AllOtherNames == <<"lens-tool", "products", "docs", "images">>

OtherNames == {AllOtherNames[i] : i \in 1..NumOtherNames}

Names == {index_name} \cup OtherNames

\* Dimensions an index of the service may have.
Dimensions == {768, 1536}

\* os.environ.get returns None for a variable that is not set.
None == "None"

\* The runs of the script: a first one, and a second one that is either
\* never started, started after the first ended, or started beside it.
Procs == {1, 2}

Terminal == {"done", "crashed"}

VARIABLES
    PINECONE_API_KEY,   \* the environment variable, or None
    service,            \* the service's indexes: name -> dimension
    service0,           \* history: the service when the first run started
    snapshot,           \* history: the service when the second run started
    loc,                \* loc[p]: where run p is in the script
    pc,                 \* pc[p]: the client object of run p, or None
    existing_indexes,   \* existing_indexes[p]: names from the first listing
    e,                  \* e[p]: the exception the handler caught, or None
    calls,              \* history: calls[p], the remote calls of run p in order
    out,                \* out[p]: the messages printed, in order
    printed             \* printed[p]: the "- name: dimension" lines printed

vars == <<PINECONE_API_KEY, service, service0, snapshot, loc, pc,
          existing_indexes, e, calls, out, printed>>

\* ------------------------------------------------------------ the service

\* Every state of the service: some of the names, each with a dimension.
ServiceStates == UNION {[S -> Dimensions] : S \in SUBSET Names}

\* What list_indexes returns: one entry (name, dimension) per index.
list_indexes == {<<n, service[n]>> : n \in DOMAIN service}

\* The service with the index of a create_index request added.
WithIndex(args) ==
    [n \in DOMAIN service \cup {args.name} |->
        IF n = args.name THEN args.dimension ELSE service[n]]

\* ------------------------------------------------------------- the script

\* The arguments of the create_index call.
CreateArgsDim1536 ==
    [name |-> index_name, dimension |-> 1536, metric |-> "cosine",
     spec |-> [serverless |-> [cloud |-> "aws", region |-> "us-east-1"]]]

CreateArgsOtherName ==
    [name |-> "lens-tool", dimension |-> 768, metric |-> "cosine",
     spec |-> [serverless |-> [cloud |-> "aws", region |-> "us-east-1"]]]

CreateArgs ==
    [name |-> index_name, dimension |-> 768, metric |-> "cosine",
     spec |-> [serverless |-> [cloud |-> "aws", region |-> "us-east-1"]]]

\* if index_name in existing_indexes
IndexPresentNever(p) == index_name \in {}

IndexPresentNegated(p) == index_name \notin existing_indexes[p]

IndexPresent(p) == index_name \in existing_indexes[p]

\* The entries the final loop prints: those of the second list_indexes call.
ListedFromFirstCall(p) == {<<n, service[n]>> : n \in existing_indexes[p]}

Listed(p) == list_indexes

\* An exception raised inside the try block: control goes to the handler.
RaiseThenRetry(p, err) ==
    IF Len(calls[p]) < 2
    THEN loc' = loc /\ e' = e
    ELSE loc' = [loc EXCEPT ![p] = "except"] /\ e' = [e EXCEPT ![p] = err]

RaiseThenContinue(p, err) ==
    /\ loc' = [loc EXCEPT ![p] = "header"]
    /\ e' = [e EXCEPT ![p] = err]

Raise(p, err) ==
    /\ loc' = [loc EXCEPT ![p] = "except"]
    /\ e' = [e EXCEPT ![p] = err]

Call(op, args, ok) == [op |-> op, args |-> args, ok |-> ok]

NoArgs == [name |-> None]

\* pc = Pinecone(api_key=os.environ.get('PINECONE_API_KEY')), outside the
\* try block: without a key the constructor raises and nothing catches it.
Construct(p) ==
    /\ loc[p] = "init"
    /\ IF PINECONE_API_KEY = None
       THEN /\ loc' = [loc EXCEPT ![p] = "crashed"]
            /\ pc' = pc
       ELSE /\ loc' = [loc EXCEPT ![p] = "list1"]
            /\ pc' = [pc EXCEPT ![p] = PINECONE_API_KEY]
    /\ UNCHANGED <<PINECONE_API_KEY, service, service0, snapshot,
                   existing_indexes, e, calls, out, printed>>

\* existing_indexes = [index.name for index in pc.list_indexes()]
ListExisting(p) ==
    /\ loc[p] = "list1"
    /\ \/ /\ existing_indexes' =
                [existing_indexes EXCEPT ![p] = {x[1] : x \in list_indexes}]
          /\ calls' = [calls EXCEPT
                         ![p] = Append(@, Call("list_indexes", NoArgs, TRUE))]
          /\ loc' = [loc EXCEPT ![p] = "check"]
          /\ e' = e
       \/ /\ calls' = [calls EXCEPT
                         ![p] = Append(@, Call("list_indexes", NoArgs, FALSE))]
          /\ Raise(p, "UNAVAILABLE")
          /\ existing_indexes' = existing_indexes
    /\ UNCHANGED <<PINECONE_API_KEY, service, service0, snapshot, pc, out,
                   printed>>

\* if index_name in existing_indexes: print(... already exists!) else: ...
CheckExists(p) ==
    /\ loc[p] = "check"
    /\ IF IndexPresent(p)
       THEN /\ out' = [out EXCEPT ![p] = Append(@, "exists")]
            /\ loc' = [loc EXCEPT ![p] = "header"]
       ELSE /\ out' = out
            /\ loc' = [loc EXCEPT ![p] = "create"]
    /\ UNCHANGED <<PINECONE_API_KEY, service, service0, snapshot, pc,
                   existing_indexes, e, calls, printed>>

\* pc.create_index(...); print(... Created new index ...).  The service
\* accepts a name it does not hold and rejects one it holds; any request
\* may fail, and a request whose answer is lost may have been carried out.
CreateIndex(p) ==
    /\ loc[p] = "create"
    /\ \/ /\ CreateArgs.name \notin DOMAIN service
          /\ service' = WithIndex(CreateArgs)
          /\ calls' = [calls EXCEPT
                         ![p] = Append(@, Call("create_index", CreateArgs, TRUE))]
          /\ out' = [out EXCEPT ![p] = Append(@, "created")]
          /\ loc' = [loc EXCEPT ![p] = "header"]
          /\ e' = e
       \/ /\ CreateArgs.name \in DOMAIN service
          /\ service' = service
          /\ calls' = [calls EXCEPT
                         ![p] = Append(@, Call("create_index", CreateArgs, FALSE))]
          /\ out' = out
          /\ Raise(p, "ALREADY_EXISTS")
       \/ /\ service' = service
          /\ calls' = [calls EXCEPT
                         ![p] = Append(@, Call("create_index", CreateArgs, FALSE))]
          /\ out' = out
          /\ Raise(p, "UNAVAILABLE")
       \/ /\ CreateArgs.name \notin DOMAIN service
          /\ service' = WithIndex(CreateArgs)
          /\ calls' = [calls EXCEPT
                         ![p] = Append(@, Call("create_index", CreateArgs, FALSE))]
          /\ out' = out
          /\ Raise(p, "UNAVAILABLE")
    /\ UNCHANGED <<PINECONE_API_KEY, service0, snapshot, pc,
                   existing_indexes, printed>>

\* print("\nAvailable indexes:")
PrintHeader(p) ==
    /\ loc[p] = "header"
    /\ out' = [out EXCEPT ![p] = Append(@, "header")]
    /\ loc' = [loc EXCEPT ![p] = "list2"]
    /\ UNCHANGED <<PINECONE_API_KEY, service, service0, snapshot, pc,
                   existing_indexes, e, calls, printed>>

\* for index in pc.list_indexes(): print(f"- {index.name}: {index.dimension} dimensions")
ListAvailable(p) ==
    /\ loc[p] = "list2"
    /\ \/ /\ printed' = [printed EXCEPT ![p] = Listed(p)]
          /\ calls' = [calls EXCEPT
                         ![p] = Append(@, Call("list_indexes", NoArgs, TRUE))]
          /\ loc' = [loc EXCEPT ![p] = "done"]
          /\ e' = e
       \/ /\ calls' = [calls EXCEPT
                         ![p] = Append(@, Call("list_indexes", NoArgs, FALSE))]
          /\ Raise(p, "UNAVAILABLE")
          /\ printed' = printed
    /\ UNCHANGED <<PINECONE_API_KEY, service, service0, snapshot, pc,
                   existing_indexes, out>>

\* except Exception as e: print(f"Error: {e}")
HandleError(p) ==
    /\ loc[p] = "except"
    /\ out' = [out EXCEPT ![p] = Append(@, "error")]
    /\ loc' = [loc EXCEPT ![p] = "done"]
    /\ UNCHANGED <<PINECONE_API_KEY, service, service0, snapshot, pc,
                   existing_indexes, e, calls, printed>>

\* The script is run again once the first run has ended.
StartSecond ==
    /\ loc[1] \in Terminal
    /\ loc[2] = "off"
    /\ loc' = [loc EXCEPT ![2] = "init"]
    /\ snapshot' = service
    /\ UNCHANGED <<PINECONE_API_KEY, service, service0, pc,
                   existing_indexes, e, calls, out, printed>>

\* ------------------------------------------------------- specifications

InitWith(l2) ==
    /\ PINECONE_API_KEY \in {None, "pcsk-key"}
    /\ service \in ServiceStates
    /\ service0 = service
    /\ snapshot = service
    /\ loc = [p \in Procs |-> IF p = 1 THEN "init" ELSE l2]
    /\ pc = [p \in Procs |-> None]
    /\ existing_indexes = [p \in Procs |-> {}]
    /\ e = [p \in Procs |-> None]
    /\ calls = [p \in Procs |-> <<>>]
    /\ out = [p \in Procs |-> <<>>]
    /\ printed = [p \in Procs |-> {}]

\* One run of the script.
Init == InitWith("off")

Next ==
    \E p \in Procs :
        \/ Construct(p)
        \/ ListExisting(p)
        \/ CheckExists(p)
        \/ CreateIndex(p)
        \/ PrintHeader(p)
        \/ ListAvailable(p)
        \/ HandleError(p)

Spec == Init /\ [][Next]_vars

\* One run; the interpreter runs the script until it ends.
FairSpec == Spec /\ WF_vars(Next)

\* Two runs in sequence.
NextSeq == Next \/ StartSecond

SpecSeq == Init /\ [][NextSeq]_vars

\* Two runs interleaved against the same service.
InitConc == InitWith("init")

SpecConc == InitConc /\ [][Next]_vars

\* ------------------------------------------------------------ properties

CreateCalls(p) == {i \in 1..Len(calls[p]) : calls[p][i].op = "create_index"}

ListCalls(p) == {i \in 1..Len(calls[p]) : calls[p][i].op = "list_indexes"}

FailedCalls(p) == {i \in 1..Len(calls[p]) : ~calls[p][i].ok}

\* The first list_indexes call of run p returned.
FirstListOk(p) ==
    /\ Len(calls[p]) >= 1
    /\ calls[p][1].op = "list_indexes"
    /\ calls[p][1].ok

Said(p, msg) == \E i \in 1..Len(out[p]) : out[p][i] = msg

\* Run p is past its check-or-create step.
PastCreateStep(p) == loc[p] \in {"header", "list2", "except", "done"}

\* C1: when 'lens-tool-768' is not among the names the first list_indexes
\* call returned, the run calls create_index exactly once (never more, and
\* once it is past the check-or-create step exactly once), with name
\* 'lens-tool-768', dimension 768, metric 'cosine' and a serverless spec of
\* cloud 'aws' and region 'us-east-1', whatever other indexes exist.
C1_CreateOnceWhenAbsent ==
    \A p \in Procs :
        (FirstListOk(p) /\ index_name \notin existing_indexes[p]) =>
            /\ Cardinality(CreateCalls(p)) <= 1
            /\ PastCreateStep(p) => Cardinality(CreateCalls(p)) = 1
            /\ \A i \in CreateCalls(p) :
                /\ calls[p][i].args.name = "lens-tool-768"
                /\ calls[p][i].args.dimension = 768
                /\ calls[p][i].args.metric = "cosine"
                /\ calls[p][i].args.spec =
                       [serverless |-> [cloud |-> "aws", region |-> "us-east-1"]]

C1_Witness ==
    /\ loc[1] = "done"
    /\ FirstListOk(1)
    /\ existing_indexes[1] = OtherNames
    /\ Cardinality(CreateCalls(1)) = 1
    /\ calls[1][2].ok

\* C2: when 'lens-tool-768' is among the names the first list_indexes call
\* returned, the run never calls create_index, and it goes on to the final
\* enumeration: it ends having printed the header and issued the second
\* list_indexes call.
C2_SkipWhenPresent ==
    \A p \in Procs :
        (FirstListOk(p) /\ index_name \in existing_indexes[p]) =>
            /\ CreateCalls(p) = {}
            /\ loc[p] \in Terminal =>
                /\ Said(p, "header")
                /\ Len(calls[p]) = 2
                /\ calls[p][2].op = "list_indexes"

C2_Witness ==
    /\ loc[1] = "done"
    /\ FirstListOk(1)
    /\ index_name \in existing_indexes[1]
    /\ out[1] = <<"exists", "header">>
    /\ Len(calls[1]) = 2

\* C3: whichever step fails (the construction of the client, a list_indexes
\* call, the create_index call), the run ends in the handler having printed
\* the error, and never ends with an uncaught exception.
C3_AllFailuresHandled ==
    \A p \in Procs :
        /\ loc[p] # "crashed"
        /\ (loc[p] = "done" /\ FailedCalls(p) # {}) => Said(p, "error")

\* C4: no retry and no recovery: a remote call that failed is the last
\* remote call of its run.
C4_NoCallAfterFailure ==
    \A p \in Procs :
        \A i \in FailedCalls(p) : i = Len(calls[p])

C4_Witness ==
    /\ loc[1] = "done"
    /\ Len(calls[1]) = 2
    /\ calls[1][2].op = "create_index"
    /\ ~calls[1][2].ok
    /\ Said(1, "error")
    /\ ~Said(1, "header")

CallBounds ==
    \A p \in Procs :
        /\ Cardinality(ListCalls(p)) <= 2
        /\ Cardinality(CreateCalls(p)) <= 1

Ended == \A p \in Procs : loc[p] \in Terminal \cup {"off"}

\* C5: every run ends, whatever the remote calls return or raise, and in a
\* run list_indexes is called at most twice and create_index at most once.
C5_OnePass == []CallBounds /\ <>Ended

C5_Witness ==
    /\ loc[1] = "done"
    /\ Cardinality(ListCalls(1)) = 2
    /\ Cardinality(CreateCalls(1)) = 1

\* C6: the remote calls come in a fixed order: the first call is
\* list_indexes; create_index is the second call and follows a first
\* listing that returned; a later list_indexes follows a check-or-create
\* step that ended without error, so every call before it returned.
C6_CallOrder ==
    \A p \in Procs :
        \A i \in 1..Len(calls[p]) :
            /\ i = 1 => calls[p][i].op = "list_indexes"
            /\ calls[p][i].op = "create_index" => (i = 2 /\ FirstListOk(p))
            /\ (calls[p][i].op = "list_indexes" /\ i > 1) =>
                /\ \A j \in 1..(i - 1) : calls[p][j].ok
                /\ \/ i = 2 /\ index_name \in existing_indexes[p]
                   \/ i = 3 /\ calls[p][2].op = "create_index"

C6_Witness ==
    /\ Len(calls[1]) = 3
    /\ calls[1][2].op = "create_index"
    /\ calls[1][3].op = "list_indexes"

\* C7: a run changes the service's indexes only by adding 'lens-tool-768':
\* every index that existed before the run still exists with its dimension,
\* and no other index has been added.
C7_OnlyAddsIndex ==
    /\ \A n \in DOMAIN service0 :
        n \in DOMAIN service /\ service[n] = service0[n]
    /\ DOMAIN service \ DOMAIN service0 \subseteq {"lens-tool-768"}

C7_Witness ==
    /\ loc[1] = "done"
    /\ DOMAIN service0 = OtherNames
    /\ index_name \in DOMAIN service

\* C8: in a run that creates the index and raises no error, the lines
\* printed are those of the indexes the service holds then, one each, with
\* a line for 'lens-tool-768' of dimension 768.
C8_ListingIsFresh ==
    \A p \in Procs :
        (loc[p] = "done" /\ Said(p, "created") /\ ~Said(p, "error")) =>
            /\ printed[p] = {<<n, service[n]>> : n \in DOMAIN service}
            /\ <<"lens-tool-768", 768>> \in printed[p]

C8_Witness ==
    /\ loc[1] = "done"
    /\ Said(1, "created")
    /\ ~Said(1, "error")
    /\ Cardinality(printed[1]) = Cardinality(OtherNames) + 1

\* The first of two runs in sequence raised no error.
FirstRunClean == loc[1] = "done" /\ ~Said(1, "error")

\* C9 as stated: after a first run without error, a second run never calls
\* create_index, reports that the index already exists, and leaves the
\* service's set of indexes as the first run left it.
C9_SecondRunReportsExists ==
    (FirstRunClean /\ loc[2] \in Terminal) =>
        /\ CreateCalls(2) = {}
        /\ Said(2, "exists")
        /\ service = snapshot

\* C9 amended: after a first run without error, a second run never calls
\* create_index and never changes the service's set of indexes; it reports
\* that the index already exists when its first list_indexes call returns.
C9_SecondRunIdempotent ==
    (FirstRunClean /\ loc[2] # "off") =>
        /\ CreateCalls(2) = {}
        /\ service = snapshot
        /\ (FirstListOk(2) /\ loc[2] \in Terminal) => Said(2, "exists")

C9_Witness ==
    /\ FirstRunClean
    /\ Said(1, "created")
    /\ loc[2] = "done"
    /\ out[2] = <<"exists", "header">>

\* C10: whenever a run has reached the 'Available indexes:' listing, the
\* index 'lens-tool-768' exists in the service, also with two runs
\* interleaved; a run whose create_index failed never reaches the listing.
C10_ListingImpliesIndex ==
    \A p \in Procs :
        /\ Said(p, "header") => index_name \in DOMAIN service
        /\ (CreateCalls(p) \cap FailedCalls(p) # {}) => ~Said(p, "header")

C10_Witness ==
    /\ \A p \in Procs : FirstListOk(p) /\ index_name \notin existing_indexes[p]
    /\ Said(1, "header")
    /\ e[2] = "ALREADY_EXISTS"

====
